---- MODULE Spec2Model ----
(***************************************************************************)
(* Form validation and submission pipeline of the Properties 4 Creations   *)
(* website (src/js/validation.js, wired by src/js/main.js).                *)
(*                                                                         *)
(* Strings that the code inspects character by character (field values)    *)
(* are sequences of one-character strings; labels and banner texts, which  *)
(* the code only copies, are plain strings.                                *)
(***************************************************************************)
EXTENDS Integers, Sequences, FiniteSets, TLC

(***************************************************************************)
(* Bounds of the exploration.                                              *)
(***************************************************************************)
\* submissions of the form that may be awaiting their network call at once
MaxInFlight == 2
\* timers of the reused success banner that may be pending at once
MaxHideTimers == 1
\* strings handed to sanitizeInput directly are enumerated up to this length
MaxText == 8
\* forms handed to validateForm directly have up to this many required inputs
MaxInputs == 4
\* strings handed to isValidEmail and isValidPhone directly are enumerated up
\* to this length
MaxArg == 3
\* the errors list of a failure response has up to this many entries
MaxMessages == 2

\* calls of one form of the two-form page awaiting their response
MaxCallsPerForm == 1

(***************************************************************************)
(* Characters.                                                             *)
(***************************************************************************)
LowerLetters ==
  {"a","b","c","d","e","f","g","h","i","j","k","l","m",
   "n","o","p","q","r","s","t","u","v","w","x","y","z"}

UpperToLower ==
  [A |-> "a", B |-> "b", C |-> "c", D |-> "d", E |-> "e", F |-> "f",
   G |-> "g", H |-> "h", I |-> "i", J |-> "j", K |-> "k", L |-> "l",
   M |-> "m", N |-> "n", O |-> "o", P |-> "p", Q |-> "q", R |-> "r",
   S |-> "s", T |-> "t", U |-> "u", V |-> "v", W |-> "w", X |-> "x",
   Y |-> "y", Z |-> "z"]

Digits == {"0","1","2","3","4","5","6","7","8","9"}

\* \s of the regular expressions (the only white space the inputs contain)
IsSpace(c) == c = " "

\* \d
IsDigit(c) == c \in Digits

\* \w
IsWord(c) == c \in LowerLetters \/ c \in DOMAIN UpperToLower \/ c \in Digits \/ c = "_"

\* the i flag of a regular expression: compare in lower case
Lower(c) == IF c \in DOMAIN UpperToLower THEN UpperToLower[c] ELSE c

\* String.prototype.trim
RECURSIVE TrimLeft(_)
TrimLeft(s) ==
  IF s # <<>> /\ IsSpace(Head(s)) THEN TrimLeft(Tail(s)) ELSE s

RECURSIVE TrimRight(_)
TrimRight(s) ==
  IF s # <<>> /\ IsSpace(s[Len(s)]) THEN TrimRight(SubSeq(s, 1, Len(s) - 1)) ELSE s

Trim(s) == TrimRight(TrimLeft(s))

\* s starts, at position i, with the characters of pat (pat in lower case)
MatchesAt(s, i, pat) ==
  /\ i + Len(pat) - 1 <= Len(s)
  /\ \A k \in 1..Len(pat) : Lower(s[i + k - 1]) = pat[k]

(***************************************************************************)
(* isValidEmail: /^[^\s@]+@[^\s@]+\.[^\s@]+$/                              *)
(***************************************************************************)
isValidEmail(email) ==
  \E at \in 1..Len(email) :
    /\ email[at] = "@"
    /\ \A i \in 1..Len(email) : ~IsSpace(email[i]) /\ (email[i] = "@" => i = at)
    /\ at > 1
    /\ \E dot \in (at + 2)..(Len(email) - 1) : email[dot] = "."

(***************************************************************************)
(* isValidPhone: strip [\s\-\(\)\.], then /^[\+]?[1-9][\d]{0,15}$/ and at  *)
(* least 10 characters left.                                               *)
(***************************************************************************)
IsPhoneFormatting(c) == IsSpace(c) \/ c \in {"-", "(", ")", "."}

NotPhoneFormatting(c) == ~IsPhoneFormatting(c)

cleanPhone(phone) == SelectSeq(phone, NotPhoneFormatting)

phoneRegex(s) ==
  LET body == IF s # <<>> /\ Head(s) = "+" THEN Tail(s) ELSE s
  IN  /\ Len(body) >= 1
      /\ Len(body) <= 16
      /\ IsDigit(body[1]) /\ body[1] # "0"
      /\ \A i \in 2..Len(body) : IsDigit(body[i])

isValidPhone(phone) ==
  phoneRegex(cleanPhone(phone)) /\ Len(cleanPhone(phone)) >= 10

(***************************************************************************)
(* sanitizeInput: remove angle brackets, then every "javascript:", then    *)
(* every on\w+= , then trim.                                               *)
(***************************************************************************)
NotAngle(c) == c \notin {"<", ">"}

JsProtocol == <<"j","a","v","a","s","c","r","i","p","t",":">>

\* .replace(/javascript:/gi, ''): leftmost matches, scanned left to right
RECURSIVE RemoveJsFrom(_, _)
RemoveJsFrom(s, i) ==
  IF i > Len(s) THEN <<>>
  ELSE IF MatchesAt(s, i, JsProtocol) THEN RemoveJsFrom(s, i + Len(JsProtocol))
  ELSE <<s[i]>> \o RemoveJsFrom(s, i + 1)

\* number of consecutive \w characters of s from position i on
RECURSIVE WordRun(_, _)
WordRun(s, i) ==
  IF i <= Len(s) /\ IsWord(s[i]) THEN 1 + WordRun(s, i + 1) ELSE 0

\* length of the match of /on\w+=/i at position i, 0 when there is none:
\* "=" is no \w, so the greedy \w+ must end right before it
HandlerMatchLen(s, i) ==
  IF MatchesAt(s, i, <<"o","n">>)
  THEN LET run == WordRun(s, i + 2)
       IN  IF run >= 1 /\ i + 2 + run <= Len(s) /\ s[i + 2 + run] = "="
           THEN run + 3
           ELSE 0
  ELSE 0

\* .replace(/on\w+=/gi, '')
RECURSIVE RemoveHandlersFrom(_, _)
RemoveHandlersFrom(s, i) ==
  IF i > Len(s) THEN <<>>
  ELSE IF HandlerMatchLen(s, i) > 0
       THEN RemoveHandlersFrom(s, i + HandlerMatchLen(s, i))
  ELSE <<s[i]>> \o RemoveHandlersFrom(s, i + 1)

sanitizeInput(input) ==
  Trim(RemoveHandlersFrom(RemoveJsFrom(SelectSeq(input, NotAngle), 1), 1))

(***************************************************************************)
(* The wired form: its markup, as the code reads it.                       *)
(***************************************************************************)
Fields == {"name", "email", "agree"}

\* document order of the form's controls
FieldOrder == <<"name", "email", "agree">>

\* type, required and minlength attributes, and the element each field is a
\* child of; name and email are children of the same element
Descriptor ==
  [name  |-> [type |-> "text", required |-> TRUE, hasMinlength |-> TRUE,
              minlength |-> 2, parent |-> "groupContact"],
   email |-> [type |-> "email", required |-> FALSE, hasMinlength |-> FALSE,
              minlength |-> 0, parent |-> "groupContact"],
   agree |-> [type |-> "checkbox", required |-> TRUE, hasMinlength |-> FALSE,
              minlength |-> 0, parent |-> "groupAgree"]]

Parents == {Descriptor[f].parent : f \in Fields}

\* what the user can type into each text-like field
InputValues ==
  [name  |-> {<<"a">>, <<"<","b",">">>},
   email |-> {<<>>, <<"a","@","b">>},
   agree |-> {}]

\* value of every control in the markup (what form.reset() restores); a
\* checkbox without a value attribute reports "on"
DefaultValue ==
  [name |-> <<>>, email |-> <<>>, agree |-> <<"o","n">>]

IdleLabel == "Submit Application"

\* textContent of the control once innerHTML is the spinner and " Sending..."
SendingLabel == " Sending..."

\* the texts submitButton.textContent takes
Labels == {IdleLabel, SendingLabel}

ValidationBanner == "Please correct the errors before submitting."

NetworkBanner == "Network error. Please check your internet connection and try again."

GenericFailure == "There was an issue submitting your application. Please try again."

SuccessText == "Application Submitted Successfully! Thank you! We will contact you within 24 hours."

\* how a network call ends here: a 2xx response, a failure response whose
\* body holds an errors list, or no response at all
Outcomes == {"ok", "failErrors", "reject"}

(***************************************************************************)
(* The body of a failure response, as response.json() gives it: the        *)
(* promise rejects (the body is not JSON), or resolves to null or to an     *)
(* object that may have errors, a list of {message} records (given here by  *)
(* its messages), and error, a non-empty string ("" when it has none).      *)
(***************************************************************************)
ErrorTexts == {"Invalid email", "Name is required"}

NoErrors == [present |-> FALSE, items |-> <<>>]

ResponseBodies ==
  {[json |-> j, errors |-> NoErrors, error |-> ""] : j \in {"rejects", "null"}}
    \cup {[json |-> "object", errors |-> e, error |-> s] :
            e \in {NoErrors} \cup
                  {[present |-> TRUE, items |-> xs] :
                     xs \in UNION {[1..n -> ErrorTexts] : n \in 0..MaxMessages}},
            s \in {"", "Form not found"}}

\* items.join(', ') from the i-th item on
RECURSIVE Join(_, _)
Join(items, i) ==
  IF i > Len(items) THEN ""
  ELSE IF i = Len(items) THEN items[i]
  ELSE items[i] \o ", " \o Join(items, i + 1)

\* mutant of errorMessageOf: response.json() is awaited outside the inner
\* try, so its rejection reaches the handler's catch, which shows the
\* network banner
errorMessageUncaught(body) ==
  IF body.json = "rejects" THEN NetworkBanner
  ELSE IF body.json = "object" /\ body.errors.present
  THEN "Submission failed: " \o Join(body.errors.items, 1)
  ELSE IF body.json = "object" /\ body.error # ""
  THEN "Submission failed: " \o body.error
  ELSE GenericFailure

\* the text handed to showError after a failure response: errorMessage
errorMessageOf(body) ==
  IF body.json = "rejects" THEN GenericFailure
  ELSE IF body.json = "object" /\ body.errors.present
  THEN "Submission failed: " \o Join(body.errors.items, 1)
  ELSE IF body.json = "object" /\ body.error # ""
  THEN "Submission failed: " \o body.error
  ELSE GenericFailure

\* the body behind each failure outcome: errors [{message: "Invalid email"}],
\* error "Form not found", or a body that is not JSON
OutcomeBody(outcome) ==
  CASE outcome = "failErrors" ->
         [json |-> "object",
          errors |-> [present |-> TRUE, items |-> <<"Invalid email">>],
          error |-> ""]
    [] outcome = "failError" ->
         [json |-> "object", errors |-> NoErrors, error |-> "Form not found"]
    [] OTHER -> [json |-> "rejects", errors |-> NoErrors, error |-> ""]

\* banner text of a failure response
FailureBanner(outcome) == errorMessageOf(OutcomeBody(outcome))

VARIABLES
  value,          \* field -> its current value
  checked,        \* field -> checked state (checkboxes)
  errClass,       \* field -> the field has the class "error"
  ariaInvalid,    \* field -> the field has aria-invalid="true"
  errDivs,        \* parent element -> its .field-error children, in order
  btnDisabled,    \* submitButton.disabled
  btnLabel,       \* submitButton.textContent
  btnLoading,     \* submitButton has the class "btn-loading"
  pending,        \* originalButtonText -> number of handler invocations
                  \* suspended at await fetch(...) that captured it
  lastCall,       \* form data read and body sent by the latest fetch call
  errorBanner,    \* text of the attached .form-general-error element, or ""
  success,        \* the .success-message element next to the form
  hideTimers,     \* pending timers that hide the .success-message element
  lastSilent,     \* result of the latest validateForm(form, false)
  sincePass,      \* the submit handler wrote the control after that pass
  lastEvent,      \* what ran last: the input listener, a part of the submit
                  \* handler (for a resolution, its outcome), or "none" of them
  everValid,      \* some validateForm(form, false) has returned true
  call,           \* a function of the module called directly, as the unit
                  \* tests call it: its name, arguments and result
  page            \* the page of the integration tests: the application form
                  \* and the contact form, children of the same element,
                  \* and the banners of that element

vars ==
  <<value, checked, errClass, ariaInvalid, errDivs, btnDisabled, btnLabel,
    btnLoading, pending, lastCall, errorBanner, success, hideTimers,
    lastSilent, sincePass, lastEvent, everValid, call, page>>

(***************************************************************************)
(* validateField: the rules, in the order of the code.                     *)
(***************************************************************************)
FieldCheck(d, rawValue, isChecked) ==
  LET v  == Trim(rawValue)
      r0 == [isValid |-> TRUE, errorMessage |-> ""]
      r1 == IF d.required /\ v = <<>>
            THEN [isValid |-> FALSE, errorMessage |-> "This field is required"]
            ELSE r0
      r2 == IF r1.isValid /\ d.hasMinlength /\ Len(v) < d.minlength
            THEN [isValid |-> FALSE,
                  errorMessage |-> "Minimum " \o ToString(d.minlength)
                                     \o " characters required"]
            ELSE r1
      r3 == IF r2.isValid /\ d.type = "email" /\ v # <<>> /\ ~isValidEmail(v)
            THEN [isValid |-> FALSE,
                  errorMessage |-> "Please enter a valid email address"]
            ELSE r2
      r4 == IF r3.isValid /\ d.type = "tel" /\ v # <<>> /\ ~isValidPhone(v)
            THEN [isValid |-> FALSE,
                  errorMessage |-> "Please enter a valid phone number"]
            ELSE r3
      r5 == IF d.type = "checkbox" /\ d.required /\ ~isChecked
            THEN [isValid |-> FALSE, errorMessage |-> "You must agree to this"]
            ELSE r4
  IN  r5

(***************************************************************************)
(* Inline error display.  ui is the record [cls, aria, divs] of the three  *)
(* variables errClass, ariaInvalid and errDivs.                            *)
(***************************************************************************)
\* removes the field's flags and the first .field-error of its parent
clearFieldError(ui, f) ==
  LET p == Descriptor[f].parent
  IN  [cls  |-> [ui.cls EXCEPT ![f] = FALSE],
       aria |-> [ui.aria EXCEPT ![f] = FALSE],
       divs |-> [ui.divs EXCEPT ![p] = IF @ = <<>> THEN @ ELSE Tail(@)]]

\* clears, flags the field and appends a .field-error to its parent
showFieldError(ui, f, message) ==
  LET c == clearFieldError(ui, f)
      p == Descriptor[f].parent
  IN  [cls  |-> [c.cls EXCEPT ![f] = TRUE],
       aria |-> [c.aria EXCEPT ![f] = TRUE],
       divs |-> [c.divs EXCEPT
                   ![p] = Append(@, [field |-> f, text |-> message])]]

\* mutant of validateField: a field that is valid, or validated silently,
\* keeps the display it had
validateFieldKeeping(ui, vals, chk, f, showErrorMsg) ==
  LET r == FieldCheck(Descriptor[f], vals[f], chk[f])
  IN  IF ~r.isValid /\ showErrorMsg
      THEN showFieldError(ui, f, r.errorMessage)
      ELSE ui

\* the display part of validateField(field, showErrorMsg)
validateField(ui, vals, chk, f, showErrorMsg) ==
  LET r == FieldCheck(Descriptor[f], vals[f], chk[f])
  IN  IF ~r.isValid /\ showErrorMsg
      THEN showFieldError(ui, f, r.errorMessage)
      ELSE clearFieldError(ui, f)

\* form.querySelectorAll('input[required], select[required], textarea[required]')
IsRequired(f) == Descriptor[f].required

RequiredInputs == SelectSeq(FieldOrder, IsRequired)

\* mutant of validateFormUI: the loop ends at the first invalid field
RECURSIVE validateFormUIStopping(_, _, _, _, _)
validateFormUIStopping(ui, vals, chk, i, showErrors) ==
  IF i > Len(RequiredInputs) THEN ui
  ELSE IF ~FieldCheck(Descriptor[RequiredInputs[i]], vals[RequiredInputs[i]],
                      chk[RequiredInputs[i]]).isValid
  THEN validateField(ui, vals, chk, RequiredInputs[i], showErrors)
  ELSE validateFormUIStopping(
         validateField(ui, vals, chk, RequiredInputs[i], showErrors),
         vals, chk, i + 1, showErrors)

\* the loop of validateForm over inputs[i..]: the display it leaves
RECURSIVE validateFormUI(_, _, _, _, _)
validateFormUI(ui, vals, chk, i, showErrors) ==
  IF i > Len(RequiredInputs) THEN ui
  ELSE validateFormUI(validateField(ui, vals, chk, RequiredInputs[i], showErrors),
                      vals, chk, i + 1, showErrors)

\* the value validateForm returns
validateForm(vals, chk) ==
  \A i \in 1..Len(RequiredInputs) :
    FieldCheck(Descriptor[RequiredInputs[i]], vals[RequiredInputs[i]],
               chk[RequiredInputs[i]]).isValid

\* new FormData(form): one entry per named control in document order, a
\* checkbox only when it is checked
RECURSIVE FormDataFrom(_, _, _)
FormDataFrom(vals, chk, i) ==
  IF i > Len(FieldOrder) THEN <<>>
  ELSE LET f == FieldOrder[i]
       IN  (IF Descriptor[f].type = "checkbox" /\ ~chk[f]
            THEN <<>>
            ELSE <<[key |-> f, val |-> vals[f]]>>)
           \o FormDataFrom(vals, chk, i + 1)

\* mutant of SanitizedFrom: the value is appended as read, not sanitized
RECURSIVE SanitizedFromRaw(_, _)
SanitizedFromRaw(formData, i) ==
  IF i > Len(formData) THEN <<>>
  ELSE <<[key |-> formData[i].key, val |-> formData[i].val]>>
       \o SanitizedFromRaw(formData, i + 1)

\* the loop that fills sanitizedData from formData.entries()
RECURSIVE SanitizedFrom(_, _)
SanitizedFrom(formData, i) ==
  IF i > Len(formData) THEN <<>>
  ELSE <<[key |-> formData[i].key, val |-> sanitizeInput(formData[i].val)]>>
       \o SanitizedFrom(formData, i + 1)

UI == [cls |-> errClass, aria |-> ariaInvalid, divs |-> errDivs]

NoCall == [formData |-> <<>>, body |-> <<>>]

\* number of network calls awaiting their response
InFlight == pending[IdleLabel] + pending[SendingLabel]

(***************************************************************************)
(* The page of the integration tests: the application form and the contact *)
(* form are children of document.body.  Each form is followed through its  *)
(* required control named "name" (minlength 2) and its submit control; its *)
(* other controls hold valid values.  showError and showSuccess look       *)
(* banners up with form.parentNode.querySelector, that is, among the       *)
(* children of the element both forms share.                               *)
(***************************************************************************)
Forms == {"application-form", "contact-form"}

\* textContent of the submit controls in the markup
FormIdleLabel ==
  [F \in Forms |-> IF F = "application-form" THEN "Submit Application"
                   ELSE "Send Message"]

\* the message of the handler's showSuccess call
FormSuccessText ==
  [F \in Forms |->
     IF F = "application-form"
     THEN "Application Submitted Successfully! Thank you! We will contact you within 24 hours."
     ELSE "Message Sent Successfully! Thank you! We will respond within 24 hours."]

\* the message shown for a response that is not ok
FormFailureText ==
  [F \in Forms |->
     IF F = "application-form"
     THEN "There was an issue submitting your application. Please try again."
     ELSE "There was an issue sending your message. Please try again."]

\* <input type="text" name="name" required minlength="2"> of either form
NameControl ==
  [type |-> "text", required |-> TRUE, hasMinlength |-> TRUE, minlength |-> 2]

\* what the user types into the name control
NameValues == {<<>>, <<"J">>, <<"J","o">>}

\* the outcomes of a call of the two-form page: ok, not ok, rejected
FormOutcomes == {"ok", "fail", "reject"}

\* no .form-general-error element among the children of the shared parent
NoErrorDiv == [attached |-> FALSE, form |-> "none", text |-> ""]

\* no .success-message element among them; form is the form the element was
\* inserted after, of the form whose message it displays
NoSuccessDiv ==
  [attached |-> FALSE, shown |-> FALSE, form |-> "none", of |-> "none",
   text |-> ""]

\* both forms after initializeForms, nothing typed, shown or sent
BothFormsLoaded ==
  [form    |-> [F \in Forms |->
                  [value    |-> <<>>,
                   error    |-> "",
                   disabled |-> TRUE,
                   label    |-> FormIdleLabel[F],
                   loading  |-> FALSE,
                   pending  |-> [l \in {FormIdleLabel[F], SendingLabel} |-> 0]]],
   error   |-> NoErrorDiv,
   success |-> NoSuccessDiv,
   hide    |-> [F \in Forms |-> 0],
   actor   |-> "none"]

\* showError(form, message): the first .form-general-error of form.parentNode
\* is removed and a new element is inserted before the form
showErrorOn(pg, F, message) ==
  [pg EXCEPT !.error = [attached |-> TRUE, form |-> F, text |-> message]]

\* showSuccess(form, message): the first .success-message of form.parentNode
\* is reused, or an element is created after the form
showSuccessOn(pg, F, message) ==
  IF pg.success.attached
  THEN [pg EXCEPT !.error = NoErrorDiv,
                  !.success = [@ EXCEPT !.shown = TRUE, !.of = F,
                                        !.text = message],
                  !.hide = [@ EXCEPT ![F] = @ + 1]]
  ELSE [pg EXCEPT !.success = [attached |-> TRUE, shown |-> TRUE, form |-> F,
                               of |-> F, text |-> message]]

(***************************************************************************)
(* State after DOMContentLoaded: initializeForms has disabled the submit   *)
(* control and attached the listeners; nothing is typed, shown or sent.    *)
(* The markup has no .success-message element (showSuccess calls creating  *)
(* one the "current implementation").                                      *)
(***************************************************************************)
PageLoaded ==
  /\ value = DefaultValue
  /\ checked = [f \in Fields |-> FALSE]
  /\ errClass = [f \in Fields |-> FALSE]
  /\ ariaInvalid = [f \in Fields |-> FALSE]
  /\ errDivs = [p \in Parents |-> <<>>]
  /\ btnDisabled = TRUE
  /\ btnLabel = IdleLabel
  /\ btnLoading = FALSE
  /\ pending = [l \in Labels |-> 0]
  /\ lastCall = NoCall
  /\ errorBanner = ""
  /\ success = [attached |-> FALSE, shown |-> FALSE, text |-> ""]
  /\ hideTimers = 0
  /\ lastSilent = "none"
  /\ sincePass = FALSE
  /\ lastEvent = "none"
  /\ everValid = FALSE
  /\ page = BothFormsLoaded

\* no function has been called directly
NoDirectCall == [fn |-> "none"]

Init == PageLoaded /\ call = NoDirectCall

\* the three variables of the inline error display take the values of ui
SetUI(ui) ==
  /\ errClass' = ui.cls
  /\ ariaInvalid' = ui.aria
  /\ errDivs' = ui.divs

\* mutant of InputListener: the control is disabled when the form is valid
InputListenerInverted(f) ==
  LET isFormValid == validateForm(value', checked')
  IN  /\ SetUI(validateFormUI(clearFieldError(UI, f), value', checked', 1, FALSE))
      /\ btnDisabled' = isFormValid
      /\ lastSilent' = IF isFormValid THEN "valid" ELSE "invalid"
      /\ sincePass' = FALSE
      /\ lastEvent' = "input"
      /\ everValid' = (everValid \/ isFormValid)
      /\ UNCHANGED <<call, page>>
      /\ UNCHANGED <<btnLabel, btnLoading, pending, lastCall, errorBanner,
                     success, hideTimers>>

\* mutant of InputListener: the pass over the form shows its messages
InputListenerShowing(f) ==
  LET isFormValid == validateForm(value', checked')
  IN  /\ SetUI(validateFormUI(clearFieldError(UI, f), value', checked', 1, TRUE))
      /\ btnDisabled' = ~isFormValid
      /\ lastSilent' = IF isFormValid THEN "valid" ELSE "invalid"
      /\ sincePass' = FALSE
      /\ lastEvent' = "input"
      /\ everValid' = (everValid \/ isFormValid)
      /\ UNCHANGED <<call, page>>
      /\ UNCHANGED <<btnLabel, btnLoading, pending, lastCall, errorBanner,
                     success, hideTimers>>

(***************************************************************************)
(* The 'input' listener of addFormValidation, run after the field changed: *)
(* clear the field's error, validate the form silently, set the control.   *)
(***************************************************************************)
InputListener(f) ==
  LET isFormValid == validateForm(value', checked')
  IN  /\ SetUI(validateFormUI(clearFieldError(UI, f), value', checked', 1, FALSE))
      /\ btnDisabled' = ~isFormValid
      /\ lastSilent' = IF isFormValid THEN "valid" ELSE "invalid"
      /\ sincePass' = FALSE
      /\ lastEvent' = "input"
      /\ everValid' = (everValid \/ isFormValid)
      /\ UNCHANGED <<call, page>>
      /\ UNCHANGED <<btnLabel, btnLoading, pending, lastCall, errorBanner,
                     success, hideTimers>>

\* the user types v into a text-like field
Input(f) ==
  /\ Descriptor[f].type # "checkbox"
  /\ \E v \in InputValues[f] : value' = [value EXCEPT ![f] = v]
  /\ UNCHANGED checked
  /\ InputListener(f)

\* the user toggles a checkbox
Toggle(f) ==
  /\ Descriptor[f].type = "checkbox"
  /\ checked' = [checked EXCEPT ![f] = ~@]
  /\ UNCHANGED value
  /\ InputListener(f)

(***************************************************************************)
(* The 'blur' listener of addFormValidation: validateField(input).         *)
(***************************************************************************)
Blur(f) ==
  /\ SetUI(validateField(UI, value, checked, f, TRUE))
  /\ lastEvent' = "none"
  /\ UNCHANGED <<everValid, call, page>>
  /\ UNCHANGED <<value, checked, btnDisabled, btnLabel, btnLoading, pending,
                 lastCall, errorBanner, success, hideTimers, lastSilent,
                 sincePass>>

(***************************************************************************)
(* showError and showSuccess.  A banner element that was removed from the  *)
(* page is out of reach of the code: its timer, when it fires, changes     *)
(* nothing, and is not kept in the state.                                  *)
(***************************************************************************)
\* showError: replace the .form-general-error element, start its timer
showError(message) == errorBanner' = message

\* showSuccess: reuse the .success-message element found next to the form
\* (and remove the general error), or create one and leave the error alone
showSuccess(message) ==
  /\ success' = [attached |-> TRUE, shown |-> TRUE, text |-> message]
  /\ IF success.attached
     THEN /\ errorBanner' = ""
          /\ hideTimers' = hideTimers + 1
     ELSE UNCHANGED <<errorBanner, hideTimers>>

\* mutant of SubmitInvalid: the control is switched to "Sending..." before
\* the form is validated
SubmitInvalidAfterDisabling ==
  /\ ~validateForm(value, checked)
  /\ SetUI(validateFormUI(UI, value, checked, 1, TRUE))
  /\ errorBanner' = ValidationBanner
  /\ btnLabel' = SendingLabel
  /\ btnDisabled' = TRUE
  /\ btnLoading' = TRUE
  /\ lastEvent' = "submitInvalid"
  /\ UNCHANGED <<everValid, call, page>>
  /\ UNCHANGED <<value, checked, pending, lastCall, success, hideTimers,
                 lastSilent, sincePass>>

\* mutant of SubmitInvalid: the refused submission runs the finally block,
\* which enables the control
SubmitInvalidRestoring ==
  /\ ~validateForm(value, checked)
  /\ SetUI(validateFormUI(UI, value, checked, 1, TRUE))
  /\ showError(ValidationBanner)
  /\ btnDisabled' = FALSE
  /\ lastEvent' = "submitInvalid"
  /\ UNCHANGED <<everValid, call, page>>
  /\ UNCHANGED <<value, checked, btnLabel, btnLoading, pending,
                 lastCall, success, hideTimers, lastSilent, sincePass>>

(***************************************************************************)
(* handleApplicationSubmit up to its await fetch(...): the 'submit'        *)
(* listener of the form.  The handler looks at nothing but the validity of *)
(* the form.                                                               *)
(***************************************************************************)
SubmitInvalid ==
  /\ ~validateForm(value, checked)
  /\ SetUI(validateFormUI(UI, value, checked, 1, TRUE))
  /\ showError(ValidationBanner)
  /\ lastEvent' = "submitInvalid"
  /\ UNCHANGED <<everValid, call, page>>
  /\ UNCHANGED <<value, checked, btnDisabled, btnLabel, btnLoading, pending,
                 lastCall, success, hideTimers, lastSilent, sincePass>>

\* mutant of SubmitValid: the call is issued before the control is touched
SubmitValidBeforeDisabling ==
  /\ validateForm(value, checked)
  /\ InFlight < MaxInFlight
  /\ SetUI(validateFormUI(UI, value, checked, 1, TRUE))
  /\ pending' = [pending EXCEPT ![btnLabel] = @ + 1]
  /\ LET formData == FormDataFrom(value, checked, 1)
     IN  lastCall' = [formData |-> formData, body |-> SanitizedFrom(formData, 1)]
  /\ sincePass' = TRUE
  /\ lastEvent' = "submitSent"
  /\ UNCHANGED <<everValid, call, page>>
  /\ UNCHANGED <<value, checked, errorBanner, success, hideTimers, lastSilent,
                 btnLabel, btnDisabled, btnLoading>>

SubmitValid ==
  /\ validateForm(value, checked)
  /\ InFlight < MaxInFlight
  /\ SetUI(validateFormUI(UI, value, checked, 1, TRUE))
  /\ pending' = [pending EXCEPT ![btnLabel] = @ + 1]
  /\ btnLabel' = SendingLabel
  /\ btnDisabled' = TRUE
  /\ btnLoading' = TRUE
  /\ LET formData == FormDataFrom(value, checked, 1)
     IN  lastCall' = [formData |-> formData, body |-> SanitizedFrom(formData, 1)]
  /\ sincePass' = TRUE
  /\ lastEvent' = "submitSent"
  /\ UNCHANGED <<everValid, call, page>>
  /\ UNCHANGED <<value, checked, errorBanner, success, hideTimers, lastSilent>>

\* mutant of Resolve: a rejected call is issued again by the handler
ResolveRetrying(originalButtonText, outcome) ==
  /\ pending[originalButtonText] > 0
  /\ pending' = IF outcome = "reject" THEN pending
                ELSE [pending EXCEPT ![originalButtonText] = @ - 1]
  /\ IF outcome = "ok"
     THEN /\ success.attached => hideTimers < MaxHideTimers
          /\ success' = [attached |-> TRUE, shown |-> TRUE, text |-> SuccessText]
          /\ IF success.attached
             THEN errorBanner' = "" /\ hideTimers' = hideTimers + 1
             ELSE UNCHANGED <<errorBanner, hideTimers>>
          /\ value' = DefaultValue
          /\ checked' = [f \in Fields |-> FALSE]
     ELSE /\ errorBanner' = (IF outcome = "reject" THEN NetworkBanner
                             ELSE FailureBanner(outcome))
          /\ UNCHANGED <<value, checked, success, hideTimers>>
  /\ btnLabel' = originalButtonText
  /\ btnDisabled' = FALSE
  /\ btnLoading' = FALSE
  /\ sincePass' = TRUE
  /\ lastEvent' = outcome
  /\ UNCHANGED <<everValid, call, page>>
  /\ UNCHANGED <<errClass, ariaInvalid, errDivs, lastCall, lastSilent>>

\* mutant of Resolve: form.reset() moved into the finally block
ResolveResettingAlways(originalButtonText, outcome) ==
  /\ pending[originalButtonText] > 0
  /\ pending' = [pending EXCEPT ![originalButtonText] = @ - 1]
  /\ IF outcome = "ok"
     THEN /\ success.attached => hideTimers < MaxHideTimers
          /\ success' = [attached |-> TRUE, shown |-> TRUE, text |-> SuccessText]
          /\ IF success.attached
             THEN errorBanner' = "" /\ hideTimers' = hideTimers + 1
             ELSE UNCHANGED <<errorBanner, hideTimers>>
     ELSE /\ errorBanner' = (IF outcome = "reject" THEN NetworkBanner
                             ELSE FailureBanner(outcome))
          /\ UNCHANGED <<success, hideTimers>>
  /\ value' = DefaultValue
  /\ checked' = [f \in Fields |-> FALSE]
  /\ btnLabel' = originalButtonText
  /\ btnDisabled' = FALSE
  /\ btnLoading' = FALSE
  /\ sincePass' = TRUE
  /\ lastEvent' = outcome
  /\ UNCHANGED <<everValid, call, page>>
  /\ UNCHANGED <<errClass, ariaInvalid, errDivs, lastCall, lastSilent>>

(***************************************************************************)
(* handleApplicationSubmit from the settling of fetch to its end, for a     *)
(* suspended invocation that captured originalButtonText.  Nothing is      *)
(* written between a failure response and the settling of response.json(), *)
(* so both are one step.                                                   *)
(***************************************************************************)
\* the finally block
RestoreButton(originalButtonText) ==
  /\ btnLabel' = originalButtonText
  /\ btnDisabled' = FALSE
  /\ btnLoading' = FALSE

Resolve(originalButtonText, outcome) ==
  /\ pending[originalButtonText] > 0
  /\ pending' = [pending EXCEPT ![originalButtonText] = @ - 1]
  /\ IF outcome = "ok"
     THEN /\ success.attached => hideTimers < MaxHideTimers
          /\ showSuccess(SuccessText)
          /\ value' = DefaultValue
          /\ checked' = [f \in Fields |-> FALSE]
     ELSE /\ showError(IF outcome = "reject" THEN NetworkBanner
                       ELSE FailureBanner(outcome))
          /\ UNCHANGED <<value, checked, success, hideTimers>>
  /\ RestoreButton(originalButtonText)
  /\ sincePass' = TRUE
  /\ lastEvent' = outcome
  /\ UNCHANGED <<everValid, call, page>>
  /\ UNCHANGED <<errClass, ariaInvalid, errDivs, lastCall, lastSilent>>

(***************************************************************************)
(* The 5000 ms timers of the banners.                                      *)
(***************************************************************************)
ErrorTimer ==
  /\ errorBanner # ""
  /\ errorBanner' = ""
  /\ lastEvent' = "none"
  /\ UNCHANGED <<everValid, call, page>>
  /\ UNCHANGED <<value, checked, errClass, ariaInvalid, errDivs, btnDisabled,
                 btnLabel, btnLoading, pending, lastCall, success, hideTimers,
                 lastSilent, sincePass>>

\* timer of the first branch of showSuccess: hide and empty the element
HideTimer ==
  /\ hideTimers > 0
  /\ hideTimers' = hideTimers - 1
  /\ success' = [success EXCEPT !.shown = FALSE, !.text = ""]
  /\ lastEvent' = "none"
  /\ UNCHANGED <<everValid, call, page>>
  /\ UNCHANGED <<value, checked, errClass, ariaInvalid, errDivs, btnDisabled,
                 btnLabel, btnLoading, pending, lastCall, errorBanner,
                 lastSilent, sincePass>>

\* timer of the second branch of showSuccess: remove the created element
RemoveTimer ==
  /\ success.attached
  /\ success' = [attached |-> FALSE, shown |-> FALSE, text |-> ""]
  /\ hideTimers' = 0
  /\ lastEvent' = "none"
  /\ UNCHANGED <<everValid, call, page>>
  /\ UNCHANGED <<value, checked, errClass, ariaInvalid, errDivs, btnDisabled,
                 btnLabel, btnLoading, pending, lastCall, errorBanner,
                 lastSilent, sincePass>>

Next ==
  \/ \E f \in Fields : Input(f)
  \/ \E f \in Fields : Toggle(f)
  \/ \E f \in Fields : Blur(f)
  \/ SubmitInvalid
  \/ SubmitValid
  \/ \E l \in Labels, outcome \in Outcomes : Resolve(l, outcome)
  \/ ErrorTimer
  \/ HideTimer
  \/ RemoveTimer

Spec == Init /\ [][Next]_vars

(***************************************************************************)
(* Properties.                                                             *)
(***************************************************************************)
\* the outcomes of a network call, as recorded in lastEvent
Resolved == lastEvent \in Outcomes

\* some .field-error element was created for field f and is displayed
HasMessage(f) ==
  \E k \in 1..Len(errDivs[Descriptor[f].parent]) :
    errDivs[Descriptor[f].parent][k].field = f

\* field f fails one of the rules of validateField
FailsARule(f) == ~FieldCheck(Descriptor[f], value[f], checked[f]).isValid

\* C1: at most one network call of the form is in flight at any time; a
\* submit arriving while a call is unresolved issues no second call.
OneSubmissionInFlight == InFlight <= 1

\* C2: when the network call of a submission has resolved and the handler
\* has finished, the control is enabled and shows the label it had before
\* the submission started, which is never the "Sending..." label.
ControlRestoredAfterSubmission ==
  Resolved => ~btnDisabled /\ btnLabel # SendingLabel

\* C3: after a submission that got a success response, a success banner is
\* shown, every field is back to empty and the control is disabled.
SuccessLeavesControlDisabled ==
  lastEvent = "ok" =>
    /\ success.shown
    /\ value = DefaultValue
    /\ \A f \in Fields : ~checked[f]
    /\ btnDisabled

\* C4 as stated: in every reachable state the control is enabled exactly
\* when the latest silent validation pass returned valid (disabled before
\* any pass).
EnabledIffLastSilentValid == (~btnDisabled) <=> (lastSilent = "valid")

\* C4 as amended: the same, in the states where the submit handler has not
\* written the control since the latest silent pass (since page load when
\* no pass has run).
EnabledIffLastSilentValidSincePass ==
  ~sincePass => ((~btnDisabled) <=> (lastSilent = "valid"))

\* C4 witness: after a valid silent pass the control is enabled, and a
\* blur that showed the error of the email field has left it so.
EnabledAfterValidPassWitness ==
  /\ ~sincePass
  /\ lastSilent = "valid"
  /\ ~btnDisabled
  /\ lastEvent = "none"
  /\ HasMessage("email")

\* C5: a submit on a form that the validator refuses issues no network
\* call, shows the general-error banner and leaves the control's disabled
\* state and label as they were.
InvalidSubmitSendsNothing ==
  [][lastEvent' = "submitInvalid" =>
       /\ pending' = pending
       /\ lastCall' = lastCall
       /\ errorBanner' = ValidationBanner
       /\ btnDisabled' = btnDisabled
       /\ btnLabel' = btnLabel]_vars

\* C5 witness: a refused submit has shown its banner and the inline error
\* of the required name field, and nothing was ever sent.
InvalidSubmitWitness ==
  /\ lastEvent = "submitInvalid"
  /\ errorBanner = ValidationBanner
  /\ errClass["name"]
  /\ lastCall = NoCall

\* C6: while any field of the form fails one of its rules, required or
\* not, no network call is issued.
FailingFieldBlocksSubmission ==
  [][(\E f \in Fields : FailsARule(f)) => InFlight' <= InFlight]_vars

ErrorDisplayMatchesFlag ==
  \A f \in Fields : HasMessage(f) <=> (errClass[f] /\ ariaInvalid[f])

\* C9: while a network call of the form is unresolved, only the submit
\* handler changes the control's disabled state and label; no input, blur
\* or timer does.
ControlOwnedBySubmissionWhileSubmitting ==
  [][(InFlight > 0 /\ lastEvent' \in {"input", "none"}) =>
       (btnDisabled' = btnDisabled /\ btnLabel' = btnLabel)]_vars

\* C10: the body of every network call has one entry per entry of the form
\* data read by the handler, in the same order and under the same name, and
\* its value is the sanitizer's result on the value read.
PayloadIsSanitizedFormData ==
  /\ Len(lastCall.body) = Len(lastCall.formData)
  /\ \A k \in 1..Len(lastCall.formData) :
       /\ lastCall.body[k].key = lastCall.formData[k].key
       /\ lastCall.body[k].val = sanitizeInput(lastCall.formData[k].val)

\* C10 witness: a call was issued whose name value the sanitizer changed
\* and whose checkbox entry is present.
SanitizedPayloadWitness ==
  /\ Len(lastCall.body) = Len(FieldOrder)
  /\ lastCall.formData[1].val = <<"<","b",">">>
  /\ lastCall.body[1].val = <<"b">>
  /\ lastCall.body[1].key = "name"

(***************************************************************************)
(* sanitizeInput called directly on a string, and again on its result.     *)
(***************************************************************************)
\* the characters of the enumerated strings: those of the pattern on\w+=
SanitizeAlphabet == {"o", "n", "="}

\* '<script>alert(1)</script>Hello'
ScriptHello ==
  <<"<","s","c","r","i","p","t",">","a","l","e","r","t","(","1",")",
    "<","/","s","c","r","i","p","t",">","H","e","l","l","o">>

\* strings of the unit tests' kind: markup, a javascript: URL, padded text,
\* a javascript: protocol nested in another
SanitizeCorpus ==
  { ScriptHello,
    <<"j","a","v","a","s","c","r","i","p","t",":","a","l","e","r","t","(","1",")">>,
    <<" "," ","H","e","l","l","o"," "," ">>,
    <<"j","a","v","a","j","a","v","a","s","c","r","i","p","t",":",
      "s","c","r","i","p","t",":">> }

SanitizeInputs ==
  SanitizeCorpus \cup UNION {[1..n -> SanitizeAlphabet] : n \in 0..MaxText}

InitSanitize ==
  /\ PageLoaded
  /\ call \in {[fn |-> "sanitizeInput", arg |-> x, times |-> 0,
               once |-> x, ret |-> x] : x \in SanitizeInputs}

\* sanitizeInput(arg)
SanitizeCall ==
  /\ call.fn = "sanitizeInput"
  /\ call.times = 0
  /\ call' = [call EXCEPT !.times = 1,
                          !.once = sanitizeInput(call.arg),
                          !.ret = sanitizeInput(call.arg)]
  /\ UNCHANGED <<value, checked, errClass, ariaInvalid, errDivs, btnDisabled,
                 btnLabel, btnLoading, pending, lastCall, errorBanner,
                 success, hideTimers, lastSilent, sincePass, lastEvent,
                 everValid, page>>

\* sanitizeInput(sanitizeInput(arg))
SanitizeAgain ==
  /\ call.fn = "sanitizeInput"
  /\ call.times = 1
  /\ call' = [call EXCEPT !.times = 2, !.ret = sanitizeInput(call.once)]
  /\ UNCHANGED <<value, checked, errClass, ariaInvalid, errDivs, btnDisabled,
                 btnLabel, btnLoading, pending, lastCall, errorBanner,
                 success, hideTimers, lastSilent, sincePass, lastEvent,
                 everValid, page>>

NextSanitize == SanitizeCall \/ SanitizeAgain

SpecSanitize == InitSanitize /\ [][NextSanitize]_vars

\* C11: sanitizing a sanitized string changes nothing:
\* sanitize(sanitize(x)) = sanitize(x) for every string x.
SanitizeIdempotent ==
  (call.fn = "sanitizeInput" /\ call.times = 2) => call.ret = call.once

\* C12: sanitizing '<script>alert(1)</script>Hello' gives 'Hello'.
ScriptElementRemoved ==
  (call.fn = "sanitizeInput" /\ call.times = 1 /\ call.arg = ScriptHello)
    => call.ret = <<"H","e","l","l","o">>

(***************************************************************************)
(* validateForm called directly with any argument.  A form is given by     *)
(* what validateField does on each of its required inputs, in document     *)
(* order: it returns true ("valid"), returns false ("invalid"), or raises  *)
(* an exception ("throws": a DOM method of the field replaced by one that  *)
(* throws).                                                                *)
(***************************************************************************)
FieldOutcomes == {"valid", "invalid", "throws"}

FormArguments ==
  {[kind |-> k, inputs |-> <<>>] : k \in {"null", "undefined", "object", "string"}}
    \cup {[kind |-> "form", inputs |-> xs] :
            xs \in UNION {[1..n -> FieldOutcomes] : n \in 0..MaxInputs}}

\* form && form instanceof HTMLFormElement
IsHTMLFormElement(form) == form.kind = "form"

\* the for loop over inputs from the i-th on: whether an exception left it,
\* and isFormValid
RECURSIVE validateLoop(_, _, _)
validateLoop(inputs, i, isFormValid) ==
  IF i > Len(inputs) THEN [threw |-> FALSE, isFormValid |-> isFormValid]
  ELSE IF inputs[i] = "throws" THEN [threw |-> TRUE, isFormValid |-> isFormValid]
  ELSE validateLoop(inputs, i + 1, isFormValid /\ inputs[i] = "valid")

\* mutant of validateFormArg: the loop is not inside try/catch
validateFormUncaught(form) ==
  IF ~IsHTMLFormElement(form) THEN "false"
  ELSE LET loop == validateLoop(form.inputs, 1, TRUE)
       IN  IF loop.threw THEN "throws"
           ELSE IF loop.isFormValid THEN "true" ELSE "false"

\* validateForm(form): "true", "false", or "throws" if an exception leaves it
validateFormArg(form) ==
  IF ~IsHTMLFormElement(form) THEN "false"
  ELSE LET loop == validateLoop(form.inputs, 1, TRUE)
       IN  IF loop.threw THEN "false"
           ELSE IF loop.isFormValid THEN "true" ELSE "false"

InitValidateForm ==
  /\ PageLoaded
  /\ call \in {[fn |-> "validateForm", form |-> a, ret |-> "pending"] :
                 a \in FormArguments}

ValidateFormCall ==
  /\ call.fn = "validateForm"
  /\ call.ret = "pending"
  /\ call' = [call EXCEPT !.ret = validateFormArg(call.form)]
  /\ UNCHANGED <<value, checked, errClass, ariaInvalid, errDivs, btnDisabled,
                 btnLabel, btnLoading, pending, lastCall, errorBanner,
                 success, hideTimers, lastSilent, sincePass, lastEvent,
                 everValid, page>>

NextValidateForm == ValidateFormCall

SpecValidateForm == InitValidateForm /\ [][NextValidateForm]_vars

CheckerAlphabet == {"a", "@", ".", "1"}

JsNull == [t |-> "null", s |-> <<>>]

JsUndefined == [t |-> "undefined", s |-> <<>>]

JsString(s) == [t |-> "string", s |-> s]

\* '1234567890' and 'a@a.a' besides the enumerated strings
CheckerArguments ==
  {JsNull, JsUndefined}
    \cup {JsString(s) : s \in UNION {[1..n -> CheckerAlphabet] : n \in 0..MaxArg}}
    \cup {JsString(<<"1","2","3","4","5","6","7","8","9","0">>),
          JsString(<<"a","@","a",".","a">>)}

\* String(x), the conversion RegExp.prototype.test applies to its argument
StringOf(x) ==
  CASE x.t = "null"      -> <<"n","u","l","l">>
    [] x.t = "undefined" -> <<"u","n","d","e","f","i","n","e","d">>
    [] OTHER             -> x.s

\* isValidEmail(x): emailRegex.test(x)
isValidEmailOf(x) == IF isValidEmail(StringOf(x)) THEN "true" ELSE "false"

\* isValidPhone(x): x.replace(...) is a TypeError when x is null or undefined
isValidPhoneOf(x) ==
  IF x.t # "string" THEN "TypeError"
  ELSE IF isValidPhone(x.s) THEN "true" ELSE "false"

InitCheckers ==
  /\ PageLoaded
  /\ call \in {[fn |-> f, arg |-> x, ret |-> "pending"] :
                 f \in {"isValidEmail", "isValidPhone"}, x \in CheckerArguments}

EmailCall ==
  /\ call.fn = "isValidEmail"
  /\ call.ret = "pending"
  /\ call' = [call EXCEPT !.ret = isValidEmailOf(call.arg)]
  /\ UNCHANGED <<value, checked, errClass, ariaInvalid, errDivs, btnDisabled,
                 btnLabel, btnLoading, pending, lastCall, errorBanner,
                 success, hideTimers, lastSilent, sincePass, lastEvent,
                 everValid, page>>

PhoneCall ==
  /\ call.fn = "isValidPhone"
  /\ call.ret = "pending"
  /\ call' = [call EXCEPT !.ret = isValidPhoneOf(call.arg)]
  /\ UNCHANGED <<value, checked, errClass, ariaInvalid, errDivs, btnDisabled,
                 btnLabel, btnLoading, pending, lastCall, errorBanner,
                 success, hideTimers, lastSilent, sincePass, lastEvent,
                 everValid, page>>

NextCheckers == EmailCall \/ PhoneCall

SpecCheckers == InitCheckers /\ [][NextCheckers]_vars

\* C14: isValidEmail and isValidPhone return false, and raise no exception,
\* for the empty string, null and undefined.
CheckersRejectEmptyAndMissing ==
  ( /\ call.fn \in {"isValidEmail", "isValidPhone"}
    /\ call.ret # "pending"
    /\ call.arg \in {JsString(<<>>), JsNull, JsUndefined} )
    => call.ret = "false"

(***************************************************************************)
(* validateField called directly on a field of any type, with or without   *)
(* the required and minlength attributes, holding any of a few values.     *)
(***************************************************************************)
FieldTypes == {"text", "email", "tel", "checkbox"}

\* the minlength attribute of the fields that have one
MinlengthAttr == 3

FieldDescriptors ==
  {[type |-> t, required |-> r, hasMinlength |-> m,
    minlength |-> IF m THEN MinlengthAttr ELSE 0, parent |-> "groupContact"] :
     t \in FieldTypes, r \in BOOLEAN, m \in BOOLEAN}

\* '', ' ', 'a', 'on', 'abcd', 'a@b.c', '1234567890'
FieldValues ==
  { <<>>, <<" ">>, <<"a">>, <<"o","n">>, <<"a","b","c","d">>,
    <<"a","@","b",".","c">>,
    <<"1","2","3","4","5","6","7","8","9","0">> }

\* the condition of the k-th if statement of validateField, without the
\* isValid it starts with
RuleFails(k, d, rawValue, isChecked) ==
  LET v == Trim(rawValue)
  IN  CASE k = 1 -> d.required /\ v = <<>>
        [] k = 2 -> d.hasMinlength /\ Len(v) < d.minlength
        [] k = 3 -> d.type = "email" /\ v # <<>> /\ ~isValidEmail(v)
        [] k = 4 -> d.type = "tel" /\ v # <<>> /\ ~isValidPhone(v)
        [] k = 5 -> d.type = "checkbox" /\ d.required /\ ~isChecked

\* the message the k-th if statement assigns
RuleMessage(k, d) ==
  CASE k = 1 -> "This field is required"
    [] k = 2 -> "Minimum " \o ToString(d.minlength) \o " characters required"
    [] k = 3 -> "Please enter a valid email address"
    [] k = 4 -> "Please enter a valid phone number"
    [] k = 5 -> "You must agree to this"

Rules == 1..5

InitField ==
  /\ PageLoaded
  /\ call \in {[fn |-> "validateField", field |-> d, value |-> v,
               checked |-> c, ret |-> [isValid |-> TRUE, errorMessage |-> ""],
               done |-> FALSE] :
                 d \in FieldDescriptors, v \in FieldValues, c \in BOOLEAN}

ValidateFieldCall ==
  /\ call.fn = "validateField"
  /\ ~call.done
  /\ call' = [call EXCEPT !.done = TRUE,
                          !.ret = FieldCheck(call.field, call.value, call.checked)]
  /\ UNCHANGED <<value, checked, errClass, ariaInvalid, errDivs, btnDisabled,
                 btnLabel, btnLoading, pending, lastCall, errorBanner,
                 success, hideTimers, lastSilent, sincePass, lastEvent,
                 everValid, page>>

NextField == ValidateFieldCall

SpecField == InitField /\ [][NextField]_vars

\* C15: the rules are tried in the order required-and-empty, minimum
\* length, email, phone, required-checkbox-unchecked; the field is invalid
\* exactly when one fails, and its message is the message of the first rule
\* that fails: no later rule replaces it.
FirstFailingRuleDecides ==
  (call.fn = "validateField" /\ call.done) =>
    LET failing == {k \in Rules :
                      RuleFails(k, call.field, call.value, call.checked)}
    IN  /\ call.ret.isValid = (failing = {})
        /\ failing # {} =>
             \E k \in failing :
               /\ \A j \in failing : k <= j
               /\ call.ret.errorMessage = RuleMessage(k, call.field)

(***************************************************************************)
(* Properties of the field validator's display, of the silent pass and of  *)
(* the page from load on.                                                  *)
(***************************************************************************)
\* the texts of the .field-error elements created for field f that ui shows
OwnMessages(ui, f) ==
  {ui.divs[Descriptor[f].parent][k].text :
     k \in {j \in 1..Len(ui.divs[Descriptor[f].parent]) :
              ui.divs[Descriptor[f].parent][j].field = f}}

\* in ui, field f carries the invalid flag and exactly the message text
Flagged(ui, f, text) ==
  ui.cls[f] /\ ui.aria[f] /\ OwnMessages(ui, f) = {text}

\* in ui, field f carries neither flag nor message
Unflagged(ui, f) ==
  ~ui.cls[f] /\ ~ui.aria[f] /\ OwnMessages(ui, f) = {}

\* the display after the step
UIAfter == [cls |-> errClass', aria |-> ariaInvalid', divs |-> errDivs']

SilentPassKeepsDisplay ==
  [][\A f \in Fields :
       (Input(f) \/ Toggle(f)) => UIAfter = clearFieldError(UI, f)]_vars

\* C18: on every input event on a field of the wired form, the field's own
\* error is cleared, a silent pass runs over the whole form, and when the
\* listener returns the control is enabled exactly when that pass returned
\* valid; no field without an error message before the event has one after.
InputEventSetsControl ==
  [][lastEvent' = "input" =>
       /\ \A f \in Fields : (Input(f) \/ Toggle(f)) => Unflagged(UIAfter, f)
       /\ btnDisabled' = ~validateForm(value', checked')
       /\ lastSilent' = IF btnDisabled' THEN "invalid" ELSE "valid"
       /\ \A g \in Fields :
            OwnMessages(UI, g) = {} => OwnMessages(UIAfter, g) = {}]_vars

\* C18 witness: an input event left the form invalid and the control
\* disabled, with no message shown for the fields that fail a rule.
InputEventWitness ==
  /\ lastEvent = "input"
  /\ lastSilent = "invalid"
  /\ btnDisabled
  /\ FailsARule("name")
  /\ FailsARule("email")
  /\ \A g \in Fields : OwnMessages(UI, g) = {}

InitFailure ==
  /\ PageLoaded
  /\ call \in {[fn |-> "response", body |-> b] : b \in ResponseBodies}

\* handleApplicationSubmit from a response with ok false to its end
FailureResponse(originalButtonText) ==
  /\ call.fn = "response"
  /\ pending[originalButtonText] > 0
  /\ pending' = [pending EXCEPT ![originalButtonText] = @ - 1]
  /\ showError(errorMessageOf(call.body))
  /\ RestoreButton(originalButtonText)
  /\ sincePass' = TRUE
  /\ lastEvent' = "failure"
  /\ UNCHANGED <<value, checked, errClass, ariaInvalid, errDivs, lastCall,
                 success, hideTimers, lastSilent, everValid, call, page>>

NextFailure ==
  \/ \E f \in Fields : Input(f)
  \/ \E f \in Fields : Toggle(f)
  \/ SubmitValid
  \/ \E originalButtonText \in Labels : FailureResponse(originalButtonText)

SpecFailure == InitFailure /\ [][NextFailure]_vars

\* the banner text by the priority field-error list, error string, generic
ExpectedFailureText(body) ==
  IF body.json = "object" /\ body.errors.present
  THEN "Submission failed: " \o Join(body.errors.items, 1)
  ELSE IF body.json = "object" /\ body.error # ""
  THEN "Submission failed: " \o body.error
  ELSE GenericFailure

CapturedLabelIsIdle ==
  /\ pending[SendingLabel] = 0
  /\ InFlight = 0 => btnLabel = IdleLabel

\* C22: a displayed banner disappears only when the timer started when it
\* was shown fires, or when a newer banner of the form replaces it.  For the
\* success banner that timer is the one hide timer pending if the banner was
\* written into the element found next to the form, and the element's
\* removal timer if it was shown by creating the element; the pending timer
\* of an earlier banner never takes it away.
BannerOwnedByItsTimer ==
  [][ /\ (success.shown /\ ~success'.shown) =>
           IF hideTimers = 0 THEN ~success'.attached
           ELSE success'.attached /\ hideTimers = 1 /\ hideTimers' = 0
      /\ (errorBanner # "" /\ errorBanner' = "") =>
           lastEvent' = "none" \/ (lastEvent' = "ok" /\ success'.shown)
    ]_vars

EmptyOptionalFieldIsValid ==
  ( /\ call.fn = "validateField"
    /\ call.done
    /\ ~call.field.required
    /\ Trim(call.value) = <<>> )
    => /\ call.ret.isValid
       /\ call.ret.errorMessage = ""

\* the fields of the form without the required attribute
OptionalFields == {f \in Fields : ~IsRequired(f)}

\* C26: validateForm runs validateField on every required field, with
\* showErrors forwarded and without stopping at the first invalid one, and
\* returns true exactly when all of them are valid; a field that is not
\* required is not validated (its flag stays as it was) and does not change
\* the result.
FormValidatorCoversRequired ==
  [][ /\ lastEvent' \in {"submitInvalid", "submitSent"} =>
           /\ \A i \in 1..Len(RequiredInputs) :
                LET f == RequiredInputs[i]
                    r == FieldCheck(Descriptor[f], value[f], checked[f])
                IN  IF ~r.isValid THEN Flagged(UIAfter, f, r.errorMessage)
                    ELSE Unflagged(UIAfter, f)
           /\ (lastEvent' = "submitSent") <=>
                (\A i \in 1..Len(RequiredInputs) : ~FailsARule(RequiredInputs[i]))
           /\ \A g \in OptionalFields :
                errClass'[g] = errClass[g] /\ ariaInvalid'[g] = ariaInvalid[g]
      /\ lastEvent' = "input" =>
           (lastSilent' = "valid") <=>
             \A i \in 1..Len(RequiredInputs) :
               FieldCheck(Descriptor[RequiredInputs[i]], value'[RequiredInputs[i]],
                          checked'[RequiredInputs[i]]).isValid
    ]_vars

\* C26 witness: a refused submission flagged both required fields, the
\* second as well as the first, and left the invalid optional email field
\* without a flag.
FormValidatorWitness ==
  /\ lastEvent = "submitInvalid"
  /\ Flagged(UI, "name", "Minimum 2 characters required")
  /\ Flagged(UI, "agree", "You must agree to this")
  /\ FailsARule("email")
  /\ ~errClass["email"]

\* C27: a network call is issued only after the form passed validation with
\* errors shown and the control was disabled and switched to " Sending...":
\* when a call has just been issued the form is valid, no required field is
\* flagged, and the control is disabled, loading and labelled " Sending...".
CallIssuedWithControlDisabled ==
  lastEvent = "submitSent" =>
    /\ validateForm(value, checked)
    /\ \A i \in 1..Len(RequiredInputs) : Unflagged(UI, RequiredInputs[i])
    /\ btnDisabled
    /\ btnLoading
    /\ btnLabel = SendingLabel
    /\ lastCall # NoCall

\* C27 witness: the first call of the form has just been issued.
CallIssuedWitness ==
  /\ lastEvent = "submitSent"
  /\ InFlight = 1
  /\ Len(lastCall.body) = Len(FieldOrder)
  /\ btnDisabled
  /\ errorBanner = ""

\* C28: every value transmitted for a required field satisfies the rules the
\* field was validated against: in the payload of every network call the
\* sanitized value of a required field is non-empty and at least as long as
\* the field's declared minimum length.
PayloadSatisfiesRules ==
  \A i \in 1..Len(lastCall.body) :
    LET entry == lastCall.body[i]
        d     == Descriptor[entry.key]
    IN  d.required =>
          /\ entry.val # <<>>
          /\ d.hasMinlength => Len(entry.val) >= d.minlength

\* C29: for every string, the sanitizer's output contains no "<" or ">", no
\* case-insensitive occurrence of "javascript:", and no substring "on"
\* followed by one or more word characters and "=".
SanitizedOutputIsClean ==
  (call.fn = "sanitizeInput" /\ call.times >= 1) =>
    /\ \A i \in 1..Len(call.once) : NotAngle(call.once[i])
    /\ \A i \in 1..Len(call.once) : ~MatchesAt(call.once, i, JsProtocol)
    /\ \A i \in 1..Len(call.once) : HandlerMatchLen(call.once, i) = 0

\* C30: for one form, a success banner and a general-error banner are never
\* displayed at the same time.
OneBannerAtATime ==
  ~(success.shown /\ errorBanner # "")

(***************************************************************************)
(* The two forms of one page: each has its listeners and its submit        *)
(* handler (handleApplicationSubmit, handleContactSubmit); the banners are *)
(* children of the element the forms share.                                *)
(***************************************************************************)
\* calls of form F awaiting their response
FormInFlight(pg, F) ==
  pg.form[F].pending[FormIdleLabel[F]] + pg.form[F].pending[SendingLabel]

\* validateForm(form) of form F, by its name control
FormIsValid(pg, F) == FieldCheck(NameControl, pg.form[F].value, FALSE).isValid

\* the user types v into the name control of form F: the 'input' listener
FormInput(F) ==
  /\ \E v \in NameValues :
       LET typed == [page EXCEPT !.form[F].value = v, !.form[F].error = ""]
       IN  page' = [typed EXCEPT !.form[F].disabled = ~FormIsValid(typed, F),
                                 !.actor = F]
  /\ UNCHANGED <<value, checked, errClass, ariaInvalid, errDivs, btnDisabled,
                 btnLabel, btnLoading, pending, lastCall, errorBanner,
                 success, hideTimers, lastSilent, sincePass, lastEvent,
                 everValid, call>>

\* 'submit' on form F while it is invalid
FormSubmitInvalid(F) ==
  /\ ~FormIsValid(page, F)
  /\ LET r == FieldCheck(NameControl, page.form[F].value, FALSE)
         flagged == [page EXCEPT !.form[F].error = r.errorMessage]
     IN  page' = [showErrorOn(flagged, F, ValidationBanner) EXCEPT !.actor = F]
  /\ UNCHANGED <<value, checked, errClass, ariaInvalid, errDivs, btnDisabled,
                 btnLabel, btnLoading, pending, lastCall, errorBanner,
                 success, hideTimers, lastSilent, sincePass, lastEvent,
                 everValid, call>>

\* 'submit' on form F while it is valid, up to await fetch(form.action)
FormSubmitValid(F) ==
  /\ FormIsValid(page, F)
  /\ FormInFlight(page, F) < MaxCallsPerForm
  /\ page' = [page EXCEPT !.form[F].error = "",
                          !.form[F].pending[page.form[F].label] = @ + 1,
                          !.form[F].label = SendingLabel,
                          !.form[F].disabled = TRUE,
                          !.form[F].loading = TRUE,
                          !.actor = F]
  /\ UNCHANGED <<value, checked, errClass, ariaInvalid, errDivs, btnDisabled,
                 btnLabel, btnLoading, pending, lastCall, errorBanner,
                 success, hideTimers, lastSilent, sincePass, lastEvent,
                 everValid, call>>

\* a call of form F settles: the rest of its handler runs
FormResolve(F, originalButtonText, outcome) ==
  /\ originalButtonText \in DOMAIN page.form[F].pending
  /\ page.form[F].pending[originalButtonText] > 0
  /\ outcome = "ok" /\ page.success.attached =>
       page.hide["application-form"] + page.hide["contact-form"] < MaxHideTimers
  /\ LET shown ==
           IF outcome = "ok"
           THEN [showSuccessOn(page, F, FormSuccessText[F])
                   EXCEPT !.form[F].value = <<>>]
           ELSE showErrorOn(page, F, IF outcome = "reject" THEN NetworkBanner
                                     ELSE FormFailureText[F])
     IN  page' = [shown EXCEPT !.form[F].pending[originalButtonText] = @ - 1,
                               !.form[F].label = originalButtonText,
                               !.form[F].disabled = FALSE,
                               !.form[F].loading = FALSE,
                               !.actor = F]
  /\ UNCHANGED <<value, checked, errClass, ariaInvalid, errDivs, btnDisabled,
                 btnLabel, btnLoading, pending, lastCall, errorBanner,
                 success, hideTimers, lastSilent, sincePass, lastEvent,
                 everValid, call>>

\* the timer of the attached .form-general-error element, started by the
\* showError call of the form it was inserted before
FormErrorTimer ==
  /\ page.error.attached
  /\ page' = [page EXCEPT !.error = NoErrorDiv, !.actor = page.error.form]
  /\ UNCHANGED <<value, checked, errClass, ariaInvalid, errDivs, btnDisabled,
                 btnLabel, btnLoading, pending, lastCall, errorBanner,
                 success, hideTimers, lastSilent, sincePass, lastEvent,
                 everValid, call>>

\* a hide timer started by a showSuccess call of form F that reused the
\* element
FormHideTimer(F) ==
  /\ page.hide[F] > 0
  /\ page' = [page EXCEPT !.hide[F] = @ - 1,
                          !.success = [@ EXCEPT !.shown = FALSE, !.text = ""],
                          !.actor = F]
  /\ UNCHANGED <<value, checked, errClass, ariaInvalid, errDivs, btnDisabled,
                 btnLabel, btnLoading, pending, lastCall, errorBanner,
                 success, hideTimers, lastSilent, sincePass, lastEvent,
                 everValid, call>>

\* the removal timer started by the showSuccess call that created the element
FormRemoveTimer ==
  /\ page.success.attached
  /\ page' = [page EXCEPT !.success = NoSuccessDiv,
                          !.hide = [F \in Forms |-> 0],
                          !.actor = page.success.form]
  /\ UNCHANGED <<value, checked, errClass, ariaInvalid, errDivs, btnDisabled,
                 btnLabel, btnLoading, pending, lastCall, errorBanner,
                 success, hideTimers, lastSilent, sincePass, lastEvent,
                 everValid, call>>

NextTwoForms ==
  \/ \E F \in Forms : FormInput(F)
  \/ \E F \in Forms : FormSubmitInvalid(F)
  \/ \E F \in Forms : FormSubmitValid(F)
  \/ \E F \in Forms : \E l \in {FormIdleLabel[F], SendingLabel} :
       \E outcome \in FormOutcomes : FormResolve(F, l, outcome)
  \/ FormErrorTimer
  \/ \E F \in Forms : FormHideTimer(F)
  \/ FormRemoveTimer

SpecTwoForms == Init /\ [][NextTwoForms]_vars

\* the banners displayed for form G: the general error inserted before it
\* and the success message shown for it
BannersOf(pg, G) ==
  [error   |-> IF pg.error.attached /\ pg.error.form = G
               THEN pg.error.text ELSE "",
   success |-> IF pg.success.shown /\ pg.success.of = G
               THEN pg.success.text ELSE ""]

\* C24: two forms on the same page are independent: a step of one form (an
\* input, a submission, a response, the expiry of one of its banners) leaves
\* the other form's submit control, field value, field error and banners as
\* they were.
FormsAreIndependent ==
  [][ \A F \in Forms, G \in Forms :
        (page'.actor = F /\ G # F) =>
          /\ page'.form[G] = page.form[G]
          /\ BannersOf(page', G) = BannersOf(page, G)
    ]_vars

\* both forms have one call in flight at the same time, each to its own
\* form.action
BothFormsInFlight ==
  \A F \in Forms : FormInFlight(page, F) = 1 /\ page.form[F].disabled

====
